---- MODULE Spec2Model ----
(***************************************************************************)
(* VeriSphere core: the Anchor program `verisphere`                       *)
(* (programs/verisphere/src/lib.rs).                                       *)
(*                                                                         *)
(* The program exposes two instructions, initialize_post and stake.  Each  *)
(* call is a transaction instruction: Anchor first validates the accounts  *)
(* struct of the instruction (InitializePost / Stake), and only when that  *)
(* validation succeeds runs the handler body.  Several payers submit       *)
(* instructions independently; their steps interleave.                     *)
(*                                                                         *)
(* The ledger state the program could own (posts, stake records, per-post  *)
(* vault balances) and the lamports of the payers are modelled as          *)
(* variables so that what the handlers do to them, and what they do not,   *)
(* is something the model checker decides.                                 *)
(***************************************************************************)
EXTENDS Integers, Sequences, FiniteSets, TLC

\* Largest u64 argument value drawn for an instruction (arguments range 0..MaxAmount).
MaxAmount == 2

\* Most instructions submitted in one run (caps the history counters).
MaxCalls == 2

\* lib.rs:11 "Placeholder: 1 VSP auto-stake fee": the fixed creation fee.
FixedFee == 1

\* Lamports every payer holds before the first instruction.
InitialLamports == 2

\* The accounts that sign and pay: `payer` of InitializePost / Stake.
Payers == {"payerA", "payerB"}

\* The u64 values an instruction argument is drawn from.
U64 == 0 .. MaxAmount

VARIABLES
    posts,         \* Post table: the set of Post records held by the program
    stakeRecords,  \* StakeRecord log, in insertion order
    vault,         \* per-post held balance: a function post id -> value
    lamports,      \* lamports of every payer account
    pc,            \* per payer: "idle" | "accounts" | "handler" | "done"
    ix,            \* per payer: the instruction (name and arguments) in flight
    accts,         \* per payer: the account metas passed with the instruction
    result,        \* per payer: the instruction's result
    entered,       \* per payer: whether the handler body ran for this instruction
    ncalls,        \* history: instructions submitted so far
    okStakes       \* history: per side, count and sum of the stake calls that returned Ok

vars == <<posts, stakeRecords, vault, lamports, pc, ix, accts, result, entered,
          ncalls, okStakes>>

\* The state kept between instructions.
Persisted == <<posts, stakeRecords, vault, lamports>>

\* The history variables, which no instruction reads.
history == <<ncalls, okStakes>>

NoIx == [op |-> "none"]

\* The account metas of an instruction: what the runtime passes for `payer`
\* and `system_program`.
AccountMetas ==
    [payer_is_signer : BOOLEAN, payer_is_writable : BOOLEAN,
     system_program_ok : BOOLEAN]

NoAccounts ==
    [payer_is_signer |-> FALSE, payer_is_writable |-> FALSE,
     system_program_ok |-> FALSE]

----------------------------------------------------------------------------
(* Account validation, as derived from the #[derive(Accounts)] structs.    *)

\* A payer declared as a plain account instead of a Signer: no signature is required.
SignerCheck_unchecked(a) == TRUE

\* `payer: Signer<'info>`: the account must have signed the transaction.
SignerCheck(a) == a.payer_is_signer

\* `system_program: Program<'info, System>`: the account is the System program.
ProgramCheck(a) == a.system_program_ok

\* `#[account(mut)]` on payer: the account must be writable.
MutCheck(a) == a.payer_is_writable

\* The fields are deserialized in declaration order, then the constraints run.
InitializePost_try_accounts(a) ==
    IF ~SignerCheck(a) THEN "AccountNotSigner"
    ELSE IF ~ProgramCheck(a) THEN "InvalidProgramId"
    ELSE IF ~MutCheck(a) THEN "ConstraintMut"
    ELSE "Ok"

Stake_try_accounts(a) ==
    IF ~SignerCheck(a) THEN "AccountNotSigner"
    ELSE IF ~ProgramCheck(a) THEN "InvalidProgramId"
    ELSE IF ~MutCheck(a) THEN "ConstraintMut"
    ELSE "Ok"

AccountsValid(a) ==
    a.payer_is_signer /\ a.payer_is_writable /\ a.system_program_ok

----------------------------------------------------------------------------
Init ==
    /\ posts = {}
    /\ stakeRecords = <<>>
    /\ vault = <<>>
    /\ lamports = [p \in Payers |-> InitialLamports]
    /\ pc = [p \in Payers |-> "idle"]
    /\ ix = [p \in Payers |-> NoIx]
    /\ accts = [p \in Payers |-> NoAccounts]
    /\ result = [p \in Payers |-> "none"]
    /\ entered = [p \in Payers |-> FALSE]
    /\ ncalls = 0
    /\ okStakes = [side \in BOOLEAN |-> [n |-> 0, sum |-> 0]]

\* A payer submits an instruction with its arguments and account metas.
Submit(c, i, a) ==
    /\ pc[c] \in {"idle", "done"}
    /\ ncalls < MaxCalls
    /\ pc' = [pc EXCEPT ![c] = "accounts"]
    /\ ix' = [ix EXCEPT ![c] = i]
    /\ accts' = [accts EXCEPT ![c] = a]
    /\ result' = [result EXCEPT ![c] = "pending"]
    /\ entered' = [entered EXCEPT ![c] = FALSE]
    /\ ncalls' = ncalls + 1
    /\ UNCHANGED <<Persisted, okStakes>>

SubmitInitializePost(c) ==
    \E n \in U64, a \in AccountMetas :
        Submit(c, [op |-> "initialize_post", stake |-> n], a)

SubmitStake(c) ==
    \E n \in U64, b \in BOOLEAN, a \in AccountMetas :
        Submit(c, [op |-> "stake", amount |-> n, agree |-> b], a)

\* The accounts of the instruction are validated; the handler runs only on "Ok".
Validate(c, r) ==
    /\ pc' = [pc EXCEPT ![c] = IF r = "Ok" THEN "handler" ELSE "done"]
    /\ result' = [result EXCEPT ![c] = IF r = "Ok" THEN @ ELSE r]
    /\ UNCHANGED <<Persisted, ix, accts, entered, history>>

ValidateInitializePost(c) ==
    /\ pc[c] = "accounts"
    /\ ix[c].op = "initialize_post"
    /\ Validate(c, InitializePost_try_accounts(accts[c]))

ValidateStake(c) ==
    /\ pc[c] = "accounts"
    /\ ix[c].op = "stake"
    /\ Validate(c, Stake_try_accounts(accts[c]))

\* pub fn initialize_post(_ctx, _stake: u64) -> Result<()> { Ok(()) }
initialize_post(c) ==
    /\ pc[c] = "handler"
    /\ ix[c].op = "initialize_post"
    /\ pc' = [pc EXCEPT ![c] = "done"]
    /\ entered' = [entered EXCEPT ![c] = TRUE]
    /\ result' = [result EXCEPT ![c] = "Ok"]
    /\ UNCHANGED <<Persisted, ix, accts, history>>

\* A stake handler that writes: it appends a StakeRecord and debits the payer.
stake_records(c) ==
    /\ pc[c] = "handler"
    /\ ix[c].op = "stake"
    /\ pc' = [pc EXCEPT ![c] = "done"]
    /\ entered' = [entered EXCEPT ![c] = TRUE]
    /\ result' = [result EXCEPT ![c] = "Ok"]
    /\ stakeRecords' = Append(stakeRecords,
                           [post_id |-> 0, staker |-> c, side |-> ix[c].agree,
                            amount |-> ix[c].amount, sequence |-> Len(stakeRecords) + 1])
    /\ okStakes' = [okStakes EXCEPT ![ix[c].agree] =
                       [n |-> @.n + 1, sum |-> @.sum + ix[c].amount]]
    /\ UNCHANGED <<posts, vault, lamports, ix, accts, ncalls>>

\* pub fn stake(_ctx, _amount: u64, _agree: bool) -> Result<()> { Ok(()) }
stake(c) ==
    /\ pc[c] = "handler"
    /\ ix[c].op = "stake"
    /\ pc' = [pc EXCEPT ![c] = "done"]
    /\ entered' = [entered EXCEPT ![c] = TRUE]
    /\ result' = [result EXCEPT ![c] = "Ok"]
    /\ okStakes' = [okStakes EXCEPT ![ix[c].agree] =
                       [n |-> @.n + 1, sum |-> @.sum + ix[c].amount]]
    /\ UNCHANGED <<Persisted, ix, accts, ncalls>>

Next ==
    \E c \in Payers :
        \/ SubmitInitializePost(c)
        \/ SubmitStake(c)
        \/ ValidateInitializePost(c)
        \/ ValidateStake(c)
        \/ initialize_post(c)
        \/ stake(c)

Spec == Init /\ [][Next]_vars

----------------------------------------------------------------------------
(* Properties.                                                             *)

InitPersisted ==
    <<{}, <<>>, <<>>, [p \in Payers |-> InitialLamports]>>

(* Vocabulary of the ledger properties: sums over the StakeRecord log and   *)
(* the Post table.                                                         *)

RECURSIVE SumAmounts(_)
SumAmounts(s) ==
    IF s = <<>> THEN 0 ELSE Head(s).amount + SumAmounts(Tail(s))

RecordsOf(post_id, side) ==
    SelectSeq(stakeRecords, LAMBDA r : r.post_id = post_id /\ r.side = side)

RecordsOn(side) ==
    SelectSeq(stakeRecords, LAMBDA r : r.side = side)

RECURSIVE SumTotals(_, _)
SumTotals(ps, side) ==
    IF ps = {} THEN 0
    ELSE LET p == CHOOSE q \in ps : TRUE
         IN  (IF side THEN p.total_agree ELSE p.total_disagree)
                 + SumTotals(ps \ {p}, side)

\* The aggregate counter of a side, over every post.
SideTotal(side) == SumTotals(posts, side)

\* The step in which the handler of payer c's instruction `op` returns.
Completes(c, op) ==
    pc[c] = "handler" /\ ix[c].op = op /\ pc'[c] = "done"

\* The spec's ValidationError kinds (bad fee, non-positive amount).
ValidationError == {"InvalidFee", "ZeroOrNegativeAmount"}

\* The program never holds a Post: no instruction creates one.
NoPostIsEverCreated == posts = {}

\* A Post exists.
PostExists == posts # {}

\* C1: for every existing Post the Vault balance of that post equals
\* fee_paid + total_agree + total_disagree.  (No Post is ever created, so the
\* formula holds of every reachable state with nothing to quantify over.)
C1_Conservation ==
    \A p \in posts :
        /\ p.id \in DOMAIN vault
        /\ vault[p.id] = p.fee_paid + p.total_agree + p.total_disagree

\* The sum invariant of the Post counters against the StakeRecord log.
SumInvariant ==
    \A p \in posts :
        /\ p.total_agree = SumAmounts(RecordsOf(p.id, TRUE))
        /\ p.total_disagree = SumAmounts(RecordsOf(p.id, FALSE))

\* C2: after every step the sum invariant holds, and a successful stake
\* appends exactly one StakeRecord (staker, side, amount) and raises exactly the
\* matching side's counter by exactly amount.
C2_StakeAppendsOneRecord ==
    [][/\ SumInvariant'
       /\ \A c \in Payers :
            (Completes(c, "stake") /\ result'[c] = "Ok") =>
                /\ Len(stakeRecords') = Len(stakeRecords) + 1
                /\ SubSeq(stakeRecords', 1, Len(stakeRecords)) = stakeRecords
                /\ LET r == stakeRecords'[Len(stakeRecords')]
                   IN  /\ r.staker = c
                       /\ r.side = ix[c].agree
                       /\ r.amount = ix[c].amount
                /\ SideTotal(ix[c].agree)' = SideTotal(ix[c].agree) + ix[c].amount
                /\ SideTotal(~ix[c].agree)' = SideTotal(~ix[c].agree)]_vars

\* C3: when the N payers have each successfully staked the same amount a on
\* the same side, and these are the only successful stakes on that side, the
\* side's aggregate is N * a and exactly N StakeRecords exist for that side.
C3_NoLostUpdates ==
    \A a \in 1 .. MaxAmount, side \in BOOLEAN :
        (/\ \A c \in Payers :
                /\ pc[c] = "done"
                /\ result[c] = "Ok"
                /\ ix[c].op = "stake"
                /\ ix[c].amount = a
                /\ ix[c].agree = side
         /\ okStakes[side].n = Cardinality(Payers))
        => /\ SideTotal(side) = Cardinality(Payers) * a
           /\ Len(RecordsOn(side)) = Cardinality(Payers)

\* C4: an initialize_post call whose fee differs from the fixed fee returns
\* InvalidFee and leaves the Post table and every Vault balance as they were.
C4_WrongFeeIsInvalidFee ==
    [][\A c \in Payers :
          (Completes(c, "initialize_post") /\ ix[c].stake # FixedFee) =>
              /\ result'[c] = "InvalidFee"
              /\ posts' = posts
              /\ vault' = vault]_vars

\* C5: a stake call with amount 0 returns a validation error, appends no
\* StakeRecord, deposits nothing and changes no Post counter.
C5_ZeroStakeIsValidationError ==
    [][\A c \in Payers :
          (Completes(c, "stake") /\ ix[c].amount = 0) =>
              /\ result'[c] \in ValidationError
              /\ Persisted' = Persisted]_vars

\* C6: once a post is Closed, a stake that finishes while it is Closed
\* returns PostClosed and changes nothing, and the post is Closed ever after.
\* (No Post exists, and the program has no operation that closes one, so no
\* state or step is in the formula's case.)
C6_ClosedRejectsStakes ==
    [][\A p \in posts :
          p.status = "Closed" =>
              /\ \E q \in posts' : q.id = p.id /\ q.status = "Closed"
              /\ \A c \in Payers :
                    Completes(c, "stake") =>
                        result'[c] = "PostClosed" /\ Persisted' = Persisted]_vars

\* A Closed post exists.
ClosedPostExists == \E p \in posts : p.status = "Closed"

\* C7: a stake call that resolves to no existing Post returns PostNotFound
\* and creates no Post, appends no StakeRecord and changes no balance.
C7_UnknownPostIsPostNotFound ==
    [][\A c \in Payers :
          (Completes(c, "stake") /\ posts = {}) =>
              /\ result'[c] = "PostNotFound"
              /\ Persisted' = Persisted]_vars

\* C8: a successful initialize_post with the fixed fee adds exactly one Post,
\* with a fresh id, status Open, fee_paid = fee and both counters 0, deposits
\* exactly the fee into that post's Vault balance and touches nothing else.
C8_CreatePostCreatesPost ==
    [][\A c \in Payers :
          (/\ Completes(c, "initialize_post")
           /\ ix[c].stake = FixedFee
           /\ result'[c] = "Ok") =>
              \E p \in posts' \ posts :
                  /\ posts' = posts \cup {p}
                  /\ p.id \notin {q.id : q \in posts}
                  /\ p.id \notin DOMAIN vault
                  /\ p.creator = c
                  /\ p.status = "Open"
                  /\ p.fee_paid = FixedFee
                  /\ p.total_agree = 0
                  /\ p.total_disagree = 0
                  /\ DOMAIN vault' = DOMAIN vault \cup {p.id}
                  /\ vault'[p.id] = FixedFee
                  /\ \A q \in DOMAIN vault : vault'[q] = vault[q]
                  /\ stakeRecords' = stakeRecords]_vars

\* C9: an initialize_post or stake instruction whose payer has not signed
\* leaves account validation directly with the signer failure
\* (AccountNotSigner): the handler body never runs for it and the step
\* changes no post, stake record, vault balance or lamports.
C9_UnsignedPayerFailsFirst ==
    [][\A c \in Payers :
          (/\ pc[c] = "accounts"
           /\ pc'[c] # "accounts"
           /\ ~accts[c].payer_is_signer) =>
              /\ pc'[c] = "done"
              /\ result'[c] = "AccountNotSigner"
              /\ ~entered'[c]
              /\ Persisted' = Persisted]_vars

\* Both instructions have been rejected for an unsigned payer.
C9_Witness ==
    \E c, d \in Payers :
        /\ pc[c] = "done" /\ pc[d] = "done"
        /\ ix[c].op = "initialize_post" /\ ix[d].op = "stake"
        /\ ~accts[c].payer_is_signer /\ ~accts[d].payer_is_signer
        /\ result[c] = "AccountNotSigner" /\ result[d] = "AccountNotSigner"
        /\ ~entered[c] /\ ~entered[d]

\* C10 (as amended): a finished instruction returned Ok exactly when its
\* accounts passed validation (payer signed and writable, system_program the
\* System program), whatever its u64 argument and side; and the posts, stake
\* records, vault balances and lamports are what they were initially.
C10_HandlersAreNoOps ==
    /\ Persisted = InitPersisted
    /\ \A c \in Payers :
          pc[c] = "done" => (result[c] = "Ok" <=> AccountsValid(accts[c]))
    /\ \A c \in Payers :
          (pc[c] = "done" /\ AccountsValid(accts[c])) => entered[c]

\* C10 as stated: a finished instruction whose payer signed returned Ok, and
\* the persisted state is what it was initially.
C10_SignedSuffices ==
    /\ Persisted = InitPersisted
    /\ \A c \in Payers :
          (pc[c] = "done" /\ accts[c].payer_is_signer) => result[c] = "Ok"

\* Both handlers have run and returned Ok, with the largest argument and
\* with argument 0, one side each way.
C10_Witness ==
    \E c, d \in Payers :
        /\ pc[c] = "done" /\ pc[d] = "done"
        /\ ix[c].op = "initialize_post" /\ ix[c].stake = MaxAmount
        /\ ix[d].op = "stake" /\ ix[d].amount = 0 /\ ix[d].agree
        /\ entered[c] /\ entered[d]
        /\ result[c] = "Ok" /\ result[d] = "Ok"
        /\ okStakes[TRUE].n = 1

====
